---- MODULE Spec2Model ----
(***************************************************************************)
(* Action dependency graph scheduler of task-runner.                       *)
(*                                                                         *)
(*   - Block::init (src/src/block.rs) and Action::init, Action::verify,    *)
(*     flow::add_gates (src/src/action.rs) build the flat graph of one     *)
(*     block from its declared actions;                                    *)
(*   - Dispatcher (src/src/dispatch.rs) runs that graph: init, complete,   *)
(*     next, update (Interrupt, BlockComplete), wrap_unfinished.           *)
(*                                                                         *)
(* Option<T> is modelled as a set with at most one element: None is {}     *)
(* and Some(x) is {x}.                                                     *)
(***************************************************************************)
EXTENDS Integers, Sequences, FiniteSets, TLC

None == {}
Some(x) == {x}
IsSome(o) == o # {}
Unwrap(o) == CHOOSE x \in o : TRUE

Min(a, b) == IF a < b THEN a ELSE b

(***************************************************************************)
(* Bounds of the model.                                                    *)
(***************************************************************************)
\* Event counters (START, WRAP, SKIP, BlockComplete) saturate at MaxCount;
\* MaxCount also is the number of iterations of a loop that is followed
\* before it is recognised as repeating the same state for ever.
MaxCount == 2

\* Program constant: maximum template nesting depth.
MAX_DEPTH == 3

(***************************************************************************)
(* Declared actions: the Info record of an Action as serde leaves it,      *)
(* plus the kind tag and, for a template, its source.                      *)
(***************************************************************************)
Info(id, kind, after, with, timeout, source) ==
    [id |-> id, kind |-> kind, with |-> with, after |-> after,
     monitor_kb |-> FALSE, background |-> None, timeout |-> timeout,
     dependents |-> {}, successors |-> {}, expired |-> None,
     source |-> source, actions |-> <<>>]

\* format!("{}~{}", a, b)
Tilde(a, b) == a \o "~" \o b

\* Character classes of the ids used by the model (Action::init, id checks):
\* ids with a character outside [a-zA-Z0-9_-], and ids made of digits only.
BadCharIds == {"a b", "T~a"}
NumericIds == {ToString(i) : i \in 0..9}
ReservedIds == {"entry", "exit"}

Ok(v) == [ok |-> TRUE, val |-> v, err |-> ""]
Err(e) == [ok |-> FALSE, val |-> <<>>, err |-> e]

(***************************************************************************)
(* Template files.  A template's source names a file whose content, once   *)
(* parsed (serde_yaml::from_str), is a list of declared actions.  "loop"   *)
(* is a file that includes itself, "duet" a file whose second action runs   *)
(* with its first (`with: "1"`), "ring" a file whose two actions wait for   *)
(* each other, "twin" a file that declares the id "a" twice, "selfie" a     *)
(* file whose action waits for itself, "stray" a file whose action waits    *)
(* for an id that nothing declares, "ping" and "pong" two files that        *)
(* include each other, "deep2" a file that includes "deep3" that includes   *)
(* "solo", "deep1" a file that includes "deep2".                            *)
(***************************************************************************)
TemplateSources ==
    {"solo", "pair", "duet", "ring", "fork", "nest", "loop", "twin", "selfie",
     "stray", "ping", "pong", "deep1", "deep2", "deep3"}

TemplateFile(source) ==
    CASE source = "solo" -> <<Info("", "instruction", None, None, None, "")>>
      [] source = "pair" -> <<Info("", "instruction", None, None, None, ""),
                              Info("", "instruction", None, None, None, "")>>
      [] source = "duet" -> <<Info("", "instruction", None, None, None, ""),
                              Info("", "instruction", None, Some("1"), None, "")>>
      [] source = "ring" -> <<Info("", "instruction", Some({"2"}), None, None, ""),
                              Info("", "instruction", Some({"1"}), None, None, "")>>
      [] source = "twin" -> <<Info("a", "instruction", None, None, None, ""),
                              Info("a", "instruction", None, None, None, "")>>
      [] source = "selfie" ->
              <<Info("a", "instruction", Some({"a"}), None, None, "")>>
      [] source = "stray" ->
              <<Info("", "instruction", Some({"zz"}), None, None, "")>>
      [] source = "fork" -> <<Info("a", "instruction", None, None, None, ""),
                              Info("b", "instruction", Some({}), None, None, "")>>
      [] source = "nest" -> <<Info("U", "template", None, None, None, "solo"),
                              Info("", "instruction", None, None, None, "")>>
      [] source = "loop" -> <<Info("", "template", None, None, None, "loop")>>
      [] source = "ping" -> <<Info("", "template", None, None, None, "pong")>>
      [] source = "pong" -> <<Info("", "template", None, None, None, "ping")>>
      [] source = "deep1" -> <<Info("", "template", None, None, None, "deep2")>>
      [] source = "deep2" -> <<Info("", "template", None, None, None, "deep3")>>
      [] source = "deep3" -> <<Info("", "template", None, None, None, "solo")>>

(***************************************************************************)
(* flow::add_gates                                                         *)
(***************************************************************************)
Gate(id, after, with) ==
    [Info(id, "nothing", after, with, Some(0), "") EXCEPT !.expired = Some(TRUE)]

\* The ids that appear in the after set of some action of the list.
Referenced(actions) ==
    UNION {Unwrap(actions[i].after) :
             i \in {j \in 1..Len(actions) : IsSome(actions[j].after)}}

Finalists(actions) ==
    {actions[i].id : i \in 1..Len(actions)} \ Referenced(actions)

\* add_gates that does not insert "entry" in the after sets.
AddGatesBare(actions, after, with) ==
    LET inner(a) == [a EXCEPT !.with = IF @ = None THEN with ELSE @]
    IN  <<Gate("entry", after, with)>>
        \o [i \in 1..Len(actions) |-> inner(actions[i])]
        \o <<Gate("exit", Some(Finalists(actions)), with)>>

AddGates(actions, after, with) ==
    LET inner(a) ==
            [a EXCEPT !.after = IF IsSome(@) THEN Some(Unwrap(@) \cup {"entry"})
                                ELSE @,
                      !.with = IF @ = None THEN with ELSE @]
    IN  <<Gate("entry", after, with)>>
        \o [i \in 1..Len(actions) |-> inner(actions[i])]
        \o <<Gate("exit", Some(Finalists(actions)), with)>>

(***************************************************************************)
(* Action::init, and the loops of Block::init and of the Template arm that *)
(* initialise a list of actions and splice the templates in.               *)
(***************************************************************************)
RECURSIVE Flatten(_)
Flatten(actions) ==
    IF actions = <<>> THEN <<>>
    ELSE (IF Head(actions).kind = "template" THEN Head(actions).actions
          ELSE <<Head(actions)>>) \o Flatten(Tail(actions))

\* info.with after the loop over n inner actions: prefixed once per action.
RECURSIVE PrefixWith(_, _, _)
PrefixWith(with, id, n) ==
    IF n = 0 \/ with = None THEN with
    ELSE PrefixWith(Some(Tilde(id, Unwrap(with))), id, n - 1)

\* One inner action of template `info`, namespaced.
PrefixInner(inner, info) ==
    [inner EXCEPT
       !.id = Tilde(info.id, @),
       !.after = IF IsSome(@)
                 THEN Some({Tilde(info.id, x) : x \in Unwrap(@)}
                           \cup (IF IsSome(info.after) THEN Unwrap(info.after)
                                 ELSE {}))
                 ELSE @]

\* The loop without its check that the id was not used before.
InitLoopNoCheck(inits) ==
    LET n == Len(inits)
        bad == {i \in 1..n : ~inits[i].ok}
        first == CHOOSE i \in bad : \A j \in bad : i <= j
    IN  IF bad = {} THEN Ok([i \in 1..n |-> inits[i].val])
        ELSE inits[first]

\* The outcome of `for (i, action) in actions.iter_mut().enumerate()` with
\* its uniqueness check, given inits[i], the outcome of action.init for the
\* i-th action (last_action being the id of the one before): the first
\* failure in loop order, or the initialised list.
InitLoop(inits) ==
    LET n == Len(inits)
        dup(i) == \E j \in 1..(i - 1) : inits[j].val.id = inits[i].val.id
        bad == {i \in 1..n : ~inits[i].ok \/ dup(i)}
        first == CHOOSE i \in bad : \A j \in bad : i <= j
    IN  IF bad = {} THEN Ok([i \in 1..n |-> inits[i].val])
        ELSE IF ~inits[first].ok THEN inits[first]
        ELSE Err("Action ID used more than once; IDs should be unique")

\* The Template arm of Action::init, after the inner actions are initialised.
TemplateExpand(info, inner) ==
    LET flat == Flatten(inner)
        named == [k \in 1..Len(flat) |-> PrefixInner(flat[k], info)]
        with == PrefixWith(info.with, info.id, Len(flat))
        gated == AddGates(named, info.after, with)
        len == Len(gated)
        renamed == [gated EXCEPT ![1].id = Tilde(info.id, "entry"),
                                 ![len].id = Tilde(info.id, "exit")]
    IN  [info EXCEPT !.with = with, !.actions = renamed]

\* No default: the after set stays as it was declared.
DefaultAfterNever(a, last_action) == a.after

\* `match (&info.after, &info.with)` of Action::init: an action that declares
\* neither waits for the action before it, the first one for nothing.
DefaultAfter(a, last_action) ==
    IF a.after = None /\ a.with = None
    THEN (IF IsSome(last_action) THEN Some({Unwrap(last_action)})
          ELSE Some({}))
    ELSE a.after

\* A depth check that lets one more level through.
TooDeepLate(depth) == depth > MAX_DEPTH + 1

\* The depth check at the head of Action::init.
TooDeep(depth) == depth > MAX_DEPTH

RECURSIVE ActionInit(_, _, _, _)
ActionInit(a, position, last_action, depth) ==
    IF TooDeep(depth)
    THEN Err("Maximum allowed template depth reached")
    ELSE IF a.id # "" /\ a.id \in BadCharIds
    THEN Err("Only alphanumeric, - and _ are allowed in actions IDs.")
    ELSE IF a.id # "" /\ a.id \in NumericIds
    THEN Err("Custom action ID cannot be digits only.")
    ELSE IF a.id \in ReservedIds
    THEN Err("entry and exit are reserved action IDs.")
    ELSE LET id == IF a.id = "" THEN ToString(position) ELSE a.id
             after == DefaultAfter(a, last_action)
             expired == IF a.timeout = Some(0) THEN Some(TRUE) ELSE a.expired
             info == [a EXCEPT !.id = id, !.after = after, !.expired = expired]
         IN  CASE a.kind = "nothing" ->
                    Ok([info EXCEPT !.timeout = IF @ = None THEN Some(0) ELSE @])
               [] a.kind = "template" ->
                    IF a.source \notin TemplateSources
                    THEN Err("Failed to open template file")
                    ELSE LET file == TemplateFile(a.source)
                             inits[i \in 1..Len(file)] ==
                                 IF i > 1 /\ ~inits[i - 1].ok THEN inits[i - 1]
                                 ELSE ActionInit(
                                        file[i], i,
                                        IF i = 1 THEN None
                                        ELSE Some(inits[i - 1].val.id),
                                        1 + depth)
                             r == InitLoop(inits)
                         IN  IF ~r.ok THEN r
                             ELSE Ok(TemplateExpand(info, r.val))
               [] OTHER -> Ok(info)

(***************************************************************************)
(* Action::verify                                                          *)
(***************************************************************************)
\* A relink with the two gates taken for each other.
WithRelinkSwapped(id) ==
    [after |-> Tilde(id, "exit"), with |-> Tilde(id, "entry")]

\* "Relink template dependents to entry/exit points": what a with that
\* names a template adds to the after set, and what it becomes.
WithRelink(id) ==
    [after |-> Tilde(id, "entry"), with |-> Tilde(id, "exit")]

Verify(a, id_list) ==
    IF IsSome(a.after) /\ a.id \in Unwrap(a.after)
    THEN Err("Action cannot be a successor of itself")
    ELSE IF a.with = Some(a.id)
    THEN Err("Action cannot be a dependent of itself")
    ELSE IF IsSome(a.after)
            /\ \E x \in Unwrap(a.after) :
                 x \notin id_list /\ Tilde(x, "exit") \notin id_list
    THEN Err("Invalid action ID")
    ELSE LET after1 == IF IsSome(a.after)
                       THEN Some({IF x \in id_list THEN x ELSE Tilde(x, "exit") :
                                    x \in Unwrap(a.after)})
                       ELSE None
             relink == IsSome(a.with) /\ Unwrap(a.with) \notin id_list
             after2 == IF ~relink THEN after1
                       ELSE IF IsSome(after1)
                       THEN Some(Unwrap(after1)
                                 \cup {WithRelink(Unwrap(a.with)).after})
                       ELSE Some({WithRelink(Unwrap(a.with)).after})
             with2 == IF relink THEN Some(WithRelink(Unwrap(a.with)).with)
                      ELSE a.with
         IN  Ok([a EXCEPT !.after = after2, !.with = with2])

(***************************************************************************)
(* Block::init                                                             *)
(***************************************************************************)
\* Action::after(): the after set, empty when it is None.
AfterOf(a) == IF IsSome(a.after) THEN Unwrap(a.after) ELSE {}

\* The lookup table: a later action of the same id overwrites an earlier one.
Id2Action(actions) ==
    [id \in {actions[i].id : i \in 1..Len(actions)} |->
       CHOOSE i \in 1..Len(actions) :
         /\ actions[i].id = id
         /\ \A j \in 1..Len(actions) : actions[j].id = id => j <= i]

NoEvents(ids) ==
    [start |-> [id \in ids |-> 0], wrap |-> [id \in ids |-> 0],
     skip |-> [id \in ids |-> 0]]

\* The first loop of Block::init: Action::init of every declared action.
InitActions(declared) ==
    LET inits[i \in 1..Len(declared)] ==
            IF i > 1 /\ ~inits[i - 1].ok THEN inits[i - 1]
            ELSE ActionInit(declared[i], i,
                            IF i = 1 THEN None ELSE Some(inits[i - 1].val.id), 0)
    IN  InitLoop(inits)

\* No add_successor at all.
SuccessorsOfNone(actions, linked, id) == {}

\* The ids that the link loop of Block::init hands to add_successor of id:
\* the link_id of every action that has id in its after().
SuccessorsOf(actions, linked, id) ==
    {actions[i].id : i \in {j \in linked : id \in AfterOf(actions[j])}}

LinksResolveAlways(actions, linked, id_list) == TRUE

\* The reverse links of Block::init: action_mut fails on a reference that
\* is no key of the lookup table.
LinksResolve(actions, linked, id_list) ==
    UNION {AfterOf(actions[i]) \cup actions[i].with : i \in linked}
       \subseteq id_list

\* The rest of Block::init, on the initialised actions: the templates are
\* spliced in, the gates added, the references verified and linked.
BlockLink(initialised) ==
        LET gated == AddGates(Flatten(initialised), Some({}), None)
            id2action == Id2Action(gated)
            id_list == DOMAIN id2action
            v == [i \in 1..Len(gated) |-> Verify(gated[i], id_list)]
        IN  IF \E i \in 1..Len(gated) : ~v[i].ok
            THEN v[CHOOSE i \in 1..Len(gated) :
                     ~v[i].ok /\ \A j \in 1..(i - 1) : v[j].ok]
            ELSE
            LET actions == [i \in 1..Len(gated) |-> v[i].val]
                \* the actions the lookup table reaches
                linked == {id2action[id] : id \in id_list}
            IN  IF ~LinksResolve(actions, linked, id_list)
                THEN Err("Invalid mutable reference to action")
                ELSE Ok([actions |->
                           [k \in 1..Len(actions) |->
                              IF k \notin linked THEN actions[k]
                              ELSE [actions[k] EXCEPT
                                 !.successors =
                                    SuccessorsOf(actions, linked, actions[k].id),
                                 !.dependents =
                                    {actions[i].id : i \in
                                       {j \in linked :
                                          actions[j].with = Some(actions[k].id)}}]],
                         id2action |-> id2action,
                         events |-> NoEvents(id_list)])

BlockInit(declared) ==
    LET r == InitActions(declared)
    IN  IF ~r.ok THEN r ELSE BlockLink(r.val)

(***************************************************************************)
(* Block: the runtime operations on the flat graph.                        *)
(***************************************************************************)
Bump(n) == Min(n + 1, MaxCount)

\* Block::action / Block::action_mut
Action(b, id) == b.actions[b.id2action[id]]

\* A readiness test that does not look at the after set.
IsReadyAlways(a) == IF IsSome(a.after) THEN Some(TRUE) ELSE None

\* unwrap_or that reads the absent value as false.
UnwrapOrFalse(o, v) == IF IsSome(o) THEN Unwrap(o) ELSE FALSE

\* Action::is_ready: Some(after is empty), or None when after is None.
IsReady(a) == IF IsSome(a.after) THEN Some(Unwrap(a.after) = {}) ELSE None

UnwrapOr(o, v) == IF IsSome(o) THEN Unwrap(o) ELSE v

\* Action::has_view (never called on a template: none is left in the graph)
HasView(a) == a.kind \in {"instruction", "selection", "image", "question"}

\* Action::satisfy that empties the after set.
ActionSatisfyClear(x, id) == [x EXCEPT !.after = Some({})]

\* Action::satisfy that leaves the after set as it is.
ActionSatisfyKeep(x, id) == x

\* Action::satisfy on successor x: remove id from its after set.
ActionSatisfy(x, id) == [x EXCEPT !.after = Some(Unwrap(x.after) \ {id})]

\* Block::satisfy: (block, ready, expired)
BlockSatisfy(b, id) ==
    LET a == Action(b, id)
        succ == {b.id2action[x] : x \in a.successors}
        deps == {b.id2action[x] : x \in a.dependents}
        b1 == [b EXCEPT !.actions =
                 [k \in DOMAIN b.actions |->
                    IF k \in succ THEN ActionSatisfy(b.actions[k], id)
                    ELSE b.actions[k]]]
        ready == {x \in a.successors : Unwrap(IsReady(Action(b1, x)))}
        b2 == [b1 EXCEPT !.actions =
                 [k \in DOMAIN b1.actions |->
                    IF k \in deps THEN [b1.actions[k] EXCEPT !.expired = Some(TRUE)]
                    ELSE b1.actions[k]]]
    IN  [block |-> b2, ready |-> ready, expired |-> a.dependents]

\* Block::wrap: the WRAP event, Action::wrap (artifacts), then satisfy.
BlockWrap(b, id) ==
    BlockSatisfy([b EXCEPT !.events.wrap[id] = Bump(@)], id)

\* Block::skip: the SKIP event, then satisfy.
BlockSkip(b, id) ==
    BlockSatisfy([b EXCEPT !.events.skip[id] = Bump(@)], id)

\* Block::execute: the START event; Action::run builds the action's units.
BlockExecute(b, id) == [b EXCEPT !.events.start[id] = Bump(@)]

\* Block::actions
BlockActions(b) == {b.actions[i].id : i \in 1..Len(b.actions)}

(***************************************************************************)
(* Dispatcher.  A dispatcher is the record d of its fields; a pass over it *)
(* is the record p of d and the locals of the running method.  The         *)
(* iteration order of a HashSet is unspecified: each for loop over a set   *)
(* is followed in every order, so the operators return sets of outcomes.   *)
(***************************************************************************)
DispatcherNew ==
    [block |-> None, queue |-> {}, active |-> {}, complete |-> {},
     foreground |-> None, background |-> None, monitor_kb |-> None]

Pass(d, ready) ==
    [d |-> d, commands |-> {}, skipped |-> {}, wrapped |-> {},
     ready |-> ready, new_ready |-> {},
     expired |-> {}, new_expired |-> {}, seen |-> {}, diverged |-> FALSE]

\* The inner while loop of Dispatcher::next for an expired id.  block.skip is
\* called on id in every iteration, so the loop ends in the first iteration if
\* id has no dependents and never otherwise: it is followed until the SKIP
\* counter saturates, where the state repeats.
RECURSIVE SkipLoop(_, _, _, _)
SkipLoop(p, id, expired, n) ==
    IF expired = {} THEN p
    ELSE IF n = MaxCount THEN [p EXCEPT !.diverged = TRUE]
    ELSE LET r == BlockSkip(Unwrap(p.d.block), id)
         IN  SkipLoop([p EXCEPT !.d.queue = @ \ expired,
                                !.d.complete = @ \cup expired,
                                !.d.block = Some(r.block),
                                !.skipped = @ \cup {id},
                                !.new_ready = @ \cup r.ready],
                      id, r.expired, n + 1)

\* The else arm of the loop body of Dispatcher::next: start id.  A command is
\* recorded as the pair of the id and of `complete` as it is at that moment.
StartAction(p, id) ==
    LET b == Unwrap(p.d.block)
        a == Action(b, id)
    IN  [p EXCEPT
           !.d.foreground = IF HasView(a) THEN Some(id) ELSE @,
           !.d.background = IF IsSome(a.background) THEN Some(id) ELSE @,
           !.d.monitor_kb = IF a.monitor_kb THEN Some(id) ELSE @,
           !.new_ready = @ \cup {dep \in a.dependents :
                                   UnwrapOr(IsReady(Action(b, dep)), TRUE)},
           !.d.queue = @ \ {id},
           !.d.block = Some(BlockExecute(b, id)),
           !.d.active = @ \cup {id},
           !.commands = @ \cup {<<id, p.d.complete>>}]

\* The body of `for id in ready` of Dispatcher::next.
NextVisit(p, id) ==
    IF UnwrapOr(Action(Unwrap(p.d.block), id).expired, FALSE)
    THEN SkipLoop(p, id, {id}, 0)
    ELSE StartAction(p, id)

\* `for id in ready` of Dispatcher::next: todo is what is left of the wave.
RECURSIVE NextWave(_, _)
NextWave(p, todo) ==
    IF p.diverged \/ todo = {} THEN {p}
    ELSE UNION {NextWave(q[1], todo \ {q[2]}) :
                  q \in {<<NextVisit(p, id), id>> : id \in todo}}

\* `while !ready.is_empty()` of Dispatcher::next.  The loop has no bound of
\* its own: when a wave starts in a state in which an earlier wave of this
\* call started (the event counters saturated), the call repeats that stretch
\* for ever.
RECURSIVE NextWaves(_)
NextWaves(p) ==
    IF p.diverged \/ p.ready = {} THEN {p}
    ELSE IF <<p.d, p.ready>> \in p.seen THEN {[p EXCEPT !.diverged = TRUE]}
    ELSE UNION {NextWaves(r) :
                  r \in {[q EXCEPT !.ready = q.new_ready, !.new_ready = {}] :
                           q \in NextWave([p EXCEPT
                                              !.new_ready = {},
                                              !.seen = @ \cup {<<p.d, p.ready>>}],
                                          p.ready)}}

\* A tail that takes an empty active for the end of the block.
NextResultNoQueueCheck(p) ==
    IF p.diverged THEN "diverge"
    ELSE IF p.commands # {} THEN "batch"
    ELSE IF p.d.active # {} THEN "none"
    ELSE "block_complete"

\* What the call returns (the tail of Dispatcher::next).
NextResult(p) ==
    IF p.diverged THEN "diverge"
    ELSE IF p.commands # {} THEN "batch"
    ELSE IF p.d.active # {} THEN "none"
    ELSE IF p.d.queue = {} THEN "block_complete"
    ELSE "panic"

\* Dispatcher::next: the outcomes [d, ret, commands, skipped, wrapped, pass];
\* skipped are the ids the call ran block.skip on, wrapped the ids the caller
\* ran block.wrap on, pass tells that the call went through the loop and
\* reached its tail.
DispatcherNext(d, ready) ==
    {[d |-> p.d, ret |-> NextResult(p), commands |-> p.commands,
      skipped |-> p.skipped, wrapped |-> {}, pass |-> ~p.diverged] :
       p \in NextWaves(Pass(d, ready))}

\* Dispatcher::init
DispatcherInit(d, block) ==
    DispatcherNext([d EXCEPT !.queue = BlockActions(block),
                             !.block = Some(block)],
                   {"entry"})

\* The body of `for id in expired` of Dispatcher::complete.
WrapVisit(p, id) ==
    IF id \in p.d.active
    THEN LET r == BlockWrap(Unwrap(p.d.block), id)
         IN  [p EXCEPT !.d.active = @ \ {id},
                       !.d.complete = @ \cup {id},
                       !.wrapped = @ \cup {id},
                       !.d.block = Some(r.block),
                       !.ready = @ \cup r.ready,
                       !.new_expired = @ \cup r.expired]
    ELSE p

\* `for id in expired` of Dispatcher::complete.
RECURSIVE WrapWave(_, _)
WrapWave(p, todo) ==
    IF todo = {} THEN {p}
    ELSE UNION {WrapWave(q[1], todo \ {q[2]}) :
                  q \in {<<WrapVisit(p, id), id>> : id \in todo}}

\* `while !expired.is_empty()` of Dispatcher::complete.  Every wave that goes
\* on wraps an active id, so the loop ends.
RECURSIVE WrapWaves(_)
WrapWaves(p) ==
    IF p.expired = {} THEN {p}
    ELSE UNION {WrapWaves(r) :
                  r \in {[q EXCEPT !.expired = q.new_expired,
                                   !.new_expired = {}] :
                           q \in WrapWave([p EXCEPT !.new_expired = {}],
                                          p.expired)}}

\* Clear a tracker that names a completed id.
ClearTracker(t, complete) ==
    IF IsSome(t) /\ Unwrap(t) \in complete THEN None ELSE t

\* A call that returns Command::none() at once and changes nothing.
Ignored(d) ==
    {[d |-> d, ret |-> "none", commands |-> {}, skipped |-> {},
      wrapped |-> {}, pass |-> FALSE]}

\* Dispatcher::complete without the test of complete in its early return.
DispatcherCompleteAgain(d, id) ==
    IF d.block = None
    THEN Ignored(d)
    ELSE UNION {{[o EXCEPT !.wrapped = q.wrapped] :
                   o \in DispatcherNext(q.d, q.ready)} :
                  q \in {[p EXCEPT
                            !.d.foreground = ClearTracker(@, p.d.complete),
                            !.d.background = ClearTracker(@, p.d.complete),
                            !.d.monitor_kb = ClearTracker(@, p.d.complete)] :
                          p \in WrapWaves([Pass(d, {}) EXCEPT !.expired = {id}])}}

\* Dispatcher::complete
DispatcherComplete(d, id) ==
    IF d.block = None \/ id \in d.complete
    THEN Ignored(d)
    ELSE UNION {{[o EXCEPT !.wrapped = q.wrapped] :
                   o \in DispatcherNext(q.d, q.ready)} :
                  q \in {[p EXCEPT
                            !.d.foreground = ClearTracker(@, p.d.complete),
                            !.d.background = ClearTracker(@, p.d.complete),
                            !.d.monitor_kb = ClearTracker(@, p.d.complete)] :
                          p \in WrapWaves([Pass(d, {}) EXCEPT !.expired = {id}])}}

\* wrap_unfinished that also wraps a dependent that a forced wrap expired.
RECURSIVE WrapUnfinishedCascade(_, _)
WrapUnfinishedCascade(b, todo) ==
    IF todo = {} THEN b
    ELSE LET id == CHOOSE x \in todo : TRUE
             r == BlockWrap(b, id)
         IN  WrapUnfinishedCascade(
               IF r.expired = {} THEN r.block
               ELSE BlockWrap(r.block, CHOOSE x \in r.expired : TRUE).block,
               todo \ {id})

\* Dispatcher::wrap_unfinished: the block after the forced wraps.
RECURSIVE WrapUnfinished(_, _)
WrapUnfinished(b, todo) ==
    IF todo = {} THEN b
    ELSE LET id == CHOOSE x \in todo : TRUE
         IN  WrapUnfinished(BlockWrap(b, id).block, todo \ {id})

\* Dispatcher::update for Interrupt and BlockComplete.
DispatcherStop(d) ==
    IF d.block = None THEN d
    ELSE [d EXCEPT !.block = None, !.queue = {}, !.active = {},
                   !.foreground = None, !.complete = {}]

(***************************************************************************)
(* The declared blocks of the model.                                       *)
(***************************************************************************)
\* Numbers of declared actions: of a block of plain actions, and of a block
\* with a template among its actions.
PlainSizes == 0..3
TemplateSizes == 1..2

\* A declared action that may refer to the ids of `others`: any after that is
\* absent, empty or one of them, any of them as companion.
PlainChoices(others) ==
    {Info("", "instruction", after, with, timeout, "") :
       after \in {None, Some({})} \cup {Some({x}) : x \in others},
       with \in {None} \cup {Some(x) : x \in others},
       timeout \in {None, Some(0)}}

TemplateChoices(others) ==
    {Info("T", "template", after, with, None, source) :
       after \in {None, Some({})} \cup {Some({x}) : x \in others},
       with \in {None} \cup {Some(x) : x \in others},
       source \in {"solo", "pair", "duet", "ring"}}

\* The ids of a block of n actions whose t-th action is the template T
\* (t = 0: no template).
IdAt(i, t) == IF i = t THEN "T" ELSE ToString(i)
Ids(n, t) == {IdAt(i, t) : i \in 1..n}

\* The lists of the first i declared actions of such a block.
RECURSIVE DeclaredLists(_, _, _)
DeclaredLists(n, t, i) ==
    IF i = 0 THEN {<<>>}
    ELSE {Append(s, c) :
            s \in DeclaredLists(n, t, i - 1),
            c \in IF i = t THEN TemplateChoices(Ids(n, t) \ {"T"})
                  ELSE PlainChoices(Ids(n, t) \ {ToString(i)})}

PlainBlocks == UNION {DeclaredLists(n, 0, n) : n \in PlainSizes}

TemplateBlocks ==
    UNION {DeclaredLists(n, t, n) : n \in TemplateSizes, t \in TemplateSizes}

\* A declared action with a background image, a keyboard monitor or both,
\* shown in a view (instruction) or not (audio).
TrackedChoices ==
    {[Info("", kind, None, None, None, "") EXCEPT
        !.background = background, !.monitor_kb = monitor_kb] :
       kind \in {"instruction", "audio"},
       background \in {None, Some("bg.png")},
       monitor_kb \in BOOLEAN}

\* The blocks of such an action, alone or followed by a plain action.
TrackedBlocks ==
    {<<c>> : c \in TrackedChoices} \cup
    {<<c, x>> : c \in TrackedChoices, x \in PlainChoices({"1"})}

Declared == PlainBlocks \cup TemplateBlocks \cup TrackedBlocks

\* The blocks of a task: those that Block::init accepts.
Accepted(decls) ==
    {r.val : r \in {q \in {BlockInit(decl) : decl \in decls} : q.ok}}

Tasks == Accepted(Declared)

\* The blocks of the runs that are followed to their end: plain blocks of up
\* to two actions, and the blocks with a template.
RunSizes == 0..2
RunTasks ==
    Accepted(UNION {DeclaredLists(n, 0, n) : n \in RunSizes} \cup TemplateBlocks)

\* The blocks of the runs with audio actions: an audio action with or without
\* a timeout, alone, or before or after an instruction or a second audio
\* action; every action follows its previous sibling or starts at once.
AudioChoices ==
    {Info("", "audio", after, None, timeout, "") :
       after \in {None, Some({})}, timeout \in {None, Some(1)}}

SiblingChoices ==
    AudioChoices \cup
    {Info("", "instruction", after, None, None, "") : after \in {None, Some({})}}

UnitTasks ==
    Accepted({<<a>> : a \in AudioChoices} \cup
             {<<a, x>> : a \in AudioChoices, x \in SiblingChoices} \cup
             {<<x, a>> : a \in AudioChoices, x \in SiblingChoices})

(***************************************************************************)
(* State.                                                                  *)
(***************************************************************************)
VARIABLES
    task,        \* the initialised block of the task that is run
    loaded,      \* whether Dispatcher::init has been called
    block, queue, active, complete,         \* the Dispatcher's fields
    foreground, background, monitor_kb,
    ret,         \* what the last call of the Dispatcher returned
    commands,    \* the execution commands the last call issued
    skipped,     \* the ids the last call skipped
    wrapped,     \* the ids the last call of complete wrapped
    pass,        \* whether the last call was a pass of next that reached its tail
    inflight,    \* BlockComplete messages emitted and not yet delivered
    terminal,    \* number of BlockComplete messages emitted so far
    log,         \* events.log, written by Block::finish
    msg,         \* the message the last call handled, with its id
    failed,      \* the started actions whose unit ended with an error
    stale        \* the ids whose timeout thread outlives the run that was stopped

vars == <<task, loaded, block, queue, active, complete, foreground,
          background, monitor_kb, ret, commands, skipped, wrapped, pass,
          inflight, terminal, log, msg, failed, stale>>

dispatcher ==
    [block |-> block, queue |-> queue, active |-> active,
     complete |-> complete, foreground |-> foreground,
     background |-> background, monitor_kb |-> monitor_kb]

\* The process is alive: the last call returned (no panic, no endless loop).
Alive == ret \notin {"panic", "diverge"}

\* The dispatcher as Dispatcher::new leaves it, nothing loaded yet.
Idle ==
    /\ loaded = FALSE
    /\ block = None /\ queue = {} /\ active = {} /\ complete = {}
    /\ foreground = None /\ background = None /\ monitor_kb = None
    /\ ret = "none" /\ pass = FALSE
    /\ commands = {} /\ skipped = {} /\ wrapped = {}
    /\ inflight = 0
    /\ terminal = 0
    /\ log = None
    /\ msg = <<"", "">>
    /\ failed = {}
    /\ stale = {}

Init == task \in Tasks /\ Idle

\* The events of the run: of the loaded block, or as Block::finish logged
\* them when the run was stopped.
Events ==
    IF IsSome(block) THEN Unwrap(block).events
    ELSE IF IsSome(log) THEN Unwrap(log)
    ELSE task.events

\* The dispatcher's fields and the returned command after a call.
Returns(o) ==
    /\ block' = o.d.block
    /\ queue' = o.d.queue
    /\ active' = o.d.active
    /\ complete' = o.d.complete
    /\ foreground' = o.d.foreground
    /\ background' = o.d.background
    /\ monitor_kb' = o.d.monitor_kb
    /\ ret' = o.ret
    /\ commands' = o.commands
    /\ skipped' = o.skipped
    /\ wrapped' = o.wrapped
    /\ pass' = o.pass
    /\ inflight' = IF o.ret = "block_complete" THEN Bump(inflight) ELSE inflight
    /\ terminal' = IF o.ret = "block_complete" THEN Bump(terminal) ELSE terminal

\* Dispatcher::init(block): the task's block is loaded and started.
Load ==
    /\ Alive /\ ~loaded /\ block = None
    /\ loaded' = TRUE
    /\ \E o \in DispatcherInit(dispatcher, task) : Returns(o)
    /\ msg' = <<"Init", "">>
    /\ UNCHANGED <<task, log, failed, stale>>

\* Action::run: the sources of the completion signal of a started action are
\* the thread of its timeout, if it has one, and its unit (or its button);
\* run::audio returns Message::Null in place of the signal when playback
\* returns an error.
HasSignal(id) ==
    id \notin failed \/ IsSome(Action(task, id).timeout)

\* Dispatcher::update for ActionComplete(id).
DispatcherUpdate(d, id) ==
    IF d.block = None THEN Ignored(d) ELSE DispatcherComplete(d, id)

\* update(ActionComplete(id)): the completion signal of a started action (its
\* timeout, its unit or its button) is delivered, during the run or after
\* the run was stopped.
Deliver(id) ==
    /\ Alive /\ loaded
    /\ Events.start[id] > 0
    /\ HasSignal(id)
    /\ \E o \in DispatcherUpdate(dispatcher, id) : Returns(o)
    /\ msg' = <<"ActionComplete", id>>
    /\ UNCHANGED <<task, loaded, log, failed, stale>>

ActionComplete == \E id \in DOMAIN task.id2action : Deliver(id)

\* The unit of the active audio action id fails: run::audio returns
\* Message::Null, and App::update answers it with Command::none() without
\* calling the dispatcher.
UnitFails(id) ==
    /\ Alive /\ IsSome(block)
    /\ id \in active /\ id \notin failed
    /\ Action(task, id).kind = "audio"
    /\ failed' = failed \cup {id}
    /\ Returns(CHOOSE o \in Ignored(dispatcher) : TRUE)
    /\ msg' = <<"Null", id>>
    /\ UNCHANGED <<task, loaded, log, stale>>

Null == \E id \in DOMAIN task.id2action : UnitFails(id)

\* Action::run: the thread of a timeout sleeps and then returns
\* ActionComplete(id), whatever has become of the action and of the run.
\* These are the active actions with such a thread.
Sleeping == {id \in active : IsSome(Action(task, id).timeout)}

\* update(Interrupt)
Interrupt ==
    /\ Alive /\ IsSome(block)
    /\ Returns([d |-> DispatcherStop(dispatcher), ret |-> "none",
                commands |-> {}, skipped |-> {}, wrapped |-> {},
                pass |-> FALSE])
    /\ log' = Some(WrapUnfinished(Unwrap(block), active).events)
    /\ msg' = <<"Interrupt", "">>
    /\ stale' = stale \cup Sleeping
    /\ UNCHANGED <<task, loaded, failed>>

\* update(BlockComplete): the terminal signal comes back to the dispatcher.
BlockComplete ==
    /\ Alive /\ inflight > 0
    /\ block' = DispatcherStop(dispatcher).block
    /\ queue' = DispatcherStop(dispatcher).queue
    /\ active' = DispatcherStop(dispatcher).active
    /\ complete' = DispatcherStop(dispatcher).complete
    /\ foreground' = DispatcherStop(dispatcher).foreground
    /\ background' = DispatcherStop(dispatcher).background
    /\ monitor_kb' = DispatcherStop(dispatcher).monitor_kb
    /\ ret' = "none" /\ pass' = FALSE
    /\ commands' = {} /\ skipped' = {} /\ wrapped' = {}
    /\ inflight' = inflight - 1
    /\ log' = IF IsSome(block)
              THEN Some(WrapUnfinished(Unwrap(block), active).events)
              ELSE log
    /\ msg' = <<"BlockComplete", "">>
    /\ stale' = stale \cup Sleeping
    /\ UNCHANGED <<task, loaded, terminal, failed>>

Next == Load \/ ActionComplete \/ Null \/ Interrupt \/ BlockComplete

Spec == Init /\ [][Next]_vars

\* A run that nobody interrupts, in which the block is loaded and every
\* signal is delivered in the end: the completion signal of every started
\* action and the terminal signal.  A delivery changes the sets of the
\* dispatcher at most once for each id (complete only grows during a run), so
\* fairness of the deliveries that change them delivers the signal of every
\* started action.
NextRun == Load \/ ActionComplete \/ BlockComplete

InitRun == task \in RunTasks /\ Idle

progress == <<block, queue, active, complete>>

SpecRun ==
    /\ InitRun /\ [][NextRun]_vars
    /\ WF_vars(Load)
    /\ WF_vars(BlockComplete)
    /\ WF_progress(ActionComplete)

\* The load of a block: Block::init on a block as it is declared, with a
\* template among its actions.  The Block holds the declared actions, then
\* the initialised ones (the loop of Action::init), then the flat graph.
DeclaredBlock(declared) ==
    [actions |-> declared, id2action |-> <<>>, events |-> NoEvents({})]

\* The blocks of three actions in which a template follows an instruction
\* and is followed by a plain action.
FollowedBlocks ==
    {<<Info("", "instruction", None, None, None, ""), t, x>> :
       t \in TemplateChoices({"1", "3"}), x \in PlainChoices({"1", "T"})}

\* Declared actions as a configuration may hold them, right or wrong: with
\* or without an id of their own, naming in after and in with any id: a
\* position, the custom id, the template, or an id that nothing declares.
LooseNames == {"1", "2", "a", "T", "zz"}

LooseChoices ==
    {Info(id, "instruction", after, with, None, "") :
       id \in {"", "a"},
       after \in {None} \cup {Some({x}) : x \in LooseNames},
       with \in {None} \cup {Some(x) : x \in LooseNames}}

LooseTemplates ==
    {Info("T", "template", after, with, None, source) :
       after \in {None, Some({"T"}), Some({"1"})},
       with \in {None, Some("T"), Some("1")},
       source \in {"solo", "twin", "selfie", "stray", "nest", "loop", "none"}}

LooseBlocks ==
    {<<x>> : x \in LooseChoices \cup LooseTemplates}
    \cup {<<x, y>> : x \in LooseChoices, y \in LooseChoices \cup LooseTemplates}
    \cup {<<t, x>> : t \in LooseTemplates, x \in LooseChoices}

\* Blocks of one template whose file includes other files: up to the depth
\* limit, beyond it, and in a circle.
DeepSources == {"nest", "deep3", "deep2", "deep1", "loop", "ping", "pong"}

DeepBlocks ==
    {<<Info("T", "template", None, None, None, source)>> :
       source \in DeepSources}

\* Blocks of one or two actions that do nothing or show an instruction,
\* declared without a timeout, with a timeout of 0 or with one of 1.
NothingChoices ==
    {Info("", kind, None, None, timeout, "") :
       kind \in {"nothing", "instruction"},
       timeout \in {None, Some(0), Some(1)}}

NothingBlocks ==
    {<<x>> : x \in NothingChoices}
    \cup {<<x, y>> : x \in NothingChoices, y \in NothingChoices}

\* The declared blocks that are loaded: those with a template, the plain
\* blocks of up to two actions, the loose ones, the deep ones and those
\* with actions that do nothing.
BuildBlocks ==
    TemplateBlocks \cup FollowedBlocks
    \cup UNION {DeclaredLists(n, 0, n) : n \in RunSizes}
    \cup LooseBlocks \cup DeepBlocks \cup NothingBlocks

InitBuild == task \in {DeclaredBlock(d) : d \in BuildBlocks} /\ Idle

\* Block::init up to the end of its first loop.
InitActionsStep ==
    /\ msg = <<"", "">> /\ ~loaded
    /\ LET r == InitActions(task.actions)
       IN  IF r.ok
           THEN /\ task' = [task EXCEPT !.actions = r.val]
                /\ msg' = <<"Action::init", "Ok">>
           ELSE /\ task' = task
                /\ msg' = <<"Block::init", "Err">>
    /\ UNCHANGED <<loaded, block, queue, active, complete, foreground,
                   background, monitor_kb, ret, commands, skipped, wrapped,
                   pass, inflight, terminal, log, failed, stale>>

\* The rest of Block::init: the templates are spliced in, the gates added,
\* the references verified and linked.
BlockInitStep ==
    /\ msg = <<"Action::init", "Ok">> /\ ~loaded
    /\ LET r == BlockLink(task.actions)
       IN  IF r.ok
           THEN /\ task' = r.val
                /\ msg' = <<"Block::init", "Ok">>
           ELSE /\ task' = task
                /\ msg' = <<"Block::init", "Err">>
    /\ UNCHANGED <<loaded, block, queue, active, complete, foreground,
                   background, monitor_kb, ret, commands, skipped, wrapped,
                   pass, inflight, terminal, log, failed, stale>>

NextBuild == InitActionsStep \/ BlockInitStep

SpecBuild == InitBuild /\ [][NextBuild]_vars

\* Such a run of a block with audio actions, whose playback may fail.
NextUnit == Load \/ ActionComplete \/ Null \/ BlockComplete

InitUnit == task \in UnitTasks /\ Idle

SpecUnit ==
    /\ InitUnit /\ [][NextUnit]_vars
    /\ WF_vars(Load)
    /\ WF_vars(BlockComplete)
    /\ WF_progress(ActionComplete)

\* Runs of one dispatcher that follow each other: a block of instructions
\* with or without a timeout is loaded, stopped, and loaded again, while
\* the timeout threads of the stopped run are still to wake up.
RerunChoices ==
    {Info("", "instruction", after, None, timeout, "") :
       after \in {None, Some({})}, timeout \in {None, Some(1)}}

RerunTasks ==
    Accepted({<<x>> : x \in RerunChoices}
             \cup {<<x, y>> : x \in RerunChoices, y \in RerunChoices})

\* Dispatcher::init(block) on the dispatcher of a run that was stopped.
Reload ==
    /\ Alive /\ loaded /\ block = None
    /\ \E o \in DispatcherInit(dispatcher, task) : Returns(o)
    /\ msg' = <<"Init", "">>
    /\ UNCHANGED <<task, loaded, log, failed, stale>>

\* update(ActionComplete(id)): the timeout thread of an action of a run
\* that was stopped wakes up and its signal is delivered.
StaleDeliver(id) ==
    /\ Alive /\ loaded
    /\ \E o \in DispatcherUpdate(dispatcher, id) : Returns(o)
    /\ stale' = stale \ {id}
    /\ msg' = <<"StaleComplete", id>>
    /\ UNCHANGED <<task, loaded, log, failed>>

StaleComplete == \E id \in stale : StaleDeliver(id)

NextRerun ==
    Load \/ ActionComplete \/ Interrupt \/ BlockComplete \/ Reload
       \/ StaleComplete

InitRerun == task \in RerunTasks /\ Idle

SpecRerun == InitRerun /\ [][NextRerun]_vars

(***************************************************************************)
(* Properties.                                                             *)
(***************************************************************************)
\* The ids the last call started, and the graph as Block::init built it.
Started == {c[1] : c \in commands}
Resolved(id) == Action(task, id)

\* C1: an action is started only when every id of its resolved after set is
\* already in complete, whether it is started because a predecessor finished
\* or alongside its companion.
C1_StartedAfterPredecessors ==
    \A c \in commands : AfterOf(Resolved(c[1])) \subseteq c[2]

\* An action with a predecessor of its own is started alongside its companion,
\* in a pass that follows the wrap of that predecessor.
C1_Witness ==
    \E c \in commands :
       /\ AfterOf(Resolved(c[1])) \ {"entry"} # {}
       /\ IsSome(Resolved(c[1]).with)
       /\ Unwrap(Resolved(c[1]).with) \in Started
       /\ \E x \in AfterOf(Resolved(c[1])) :
            Unwrap(block).events.wrap[x] > 0

\* C2: in a run of an accepted block in which every signal is delivered, the
\* run reaches a state with queue and active both empty, and emits exactly
\* one terminal signal.
C2_RunEndsWithOneTerminal ==
    /\ <>(loaded /\ queue = {} /\ active = {} /\ terminal = 1)
    /\ [](terminal <= 1)

\* C3: no action is started more than once in a run.
C3_StartedAtMostOnce ==
    \A id \in DOMAIN task.id2action : Events.start[id] <= 1

\* C4: no run of an accepted block reaches the deadlock abort of next.
C4_NoDeadlockAbort == ret # "panic"

\* The actions that declare a companion, with that companion (as resolved).
Companions ==
    {<<id, Unwrap(Resolved(id).with)>> :
       id \in {x \in DOMAIN task.id2action : IsSome(Resolved(x).with)}}

\* C5: when the companion A of D is wrapped while D is still in queue, D is
\* never started, and once the after set of D is empty D is in complete, put
\* there by a skip.
C5_ExpiredNeverStarted ==
    [][\A c \in Companions :
         (c[1] \in queue /\ Events'.wrap[c[2]] > 0) =>
           /\ Events'.start[c[1]] = 0
           /\ (IsSome(block') /\ Action(Unwrap(block'), c[1]).after = Some({})) =>
                 (c[1] \in complete' /\ Events'.skip[c[1]] > 0)]_vars

\* C6: when a call of next starts A, every dependent of A whose after set is
\* empty or absent is handled (started or skipped) by the same call; so B with
\* with = A and no after is started by the call that starts A.
C6_DependentsHandledInSameCall ==
    [][\A c \in commands' :
         \A dep \in Resolved(c[1]).dependents :
            UnwrapOr(IsReady(Action(Unwrap(block'), dep)), TRUE) =>
               dep \in {x[1] : x \in commands'} \cup skipped']_vars

\* C7: when complete wraps A, every dependent of A that is in active is
\* wrapped by the same call, transitively, and a dependent of A that is in
\* complete already is not wrapped again.
C7_WrapCascade ==
    [][\A a \in wrapped' :
         \A dep \in Resolved(a).dependents :
            /\ dep \in active => dep \in wrapped'
            /\ dep \in complete => dep \notin wrapped']_vars

\* C8: in a run the skip operation (SKIP event and satisfy) is performed at
\* most once for every id, also for an id with dependents: the skip cascade
\* of next finishes.
C8_SkippedAtMostOnce ==
    \A id \in DOMAIN task.id2action : Events.skip[id] <= 1

\* C9: no id is both started and skipped in a run, and an id that was started
\* is in complete only by its wrap, never by the skip cascade of next.
C9_StartedNeverSkipped ==
    \A id \in DOMAIN task.id2action :
       Events.start[id] > 0 =>
          /\ Events.skip[id] = 0
          /\ id \in complete => Events.wrap[id] > 0

\* C10: the terminal signal is emitted exactly by the passes of next that end
\* with queue and active both empty and no execution command issued.
C10_TerminalIffPassEndsEmpty ==
    (ret = "block_complete") <=>
       (pass /\ commands = {} /\ active = {} /\ queue = {})

\* The terminal signal is emitted by the pass that follows the last wrap of
\* a block with an action that ran.
C10_Witness ==
    /\ ret = "block_complete" /\ pass
    /\ wrapped # {} /\ skipped # {}
    /\ commands = {} /\ active = {} /\ queue = {}

\* C11: a call of complete when no block is loaded, or for an id that is in
\* complete already, leaves queue, active, complete, the three trackers and
\* the block (the after set and the expired flag of every node) as they
\* were, and returns no command.
C11_IgnoredCompletion ==
    [][(msg'[1] = "ActionComplete" /\ (block = None \/ msg'[2] \in complete)) =>
          /\ UNCHANGED <<block, queue, active, complete>>
          /\ UNCHANGED <<foreground, background, monitor_kb>>
          /\ commands' = {} /\ ret' = "none"]_vars

\* A second completion signal of an action arrived while the block was still
\* running with other actions active.
C11_Witness ==
    /\ msg[1] = "ActionComplete" /\ msg[2] \in complete
    /\ IsSome(block) /\ active # {}
    /\ ~pass /\ ret = "none" /\ wrapped = {}

C13_InterruptLeavesNoResidue ==
    msg[1] = "Interrupt" =>
       /\ block = None /\ queue = {} /\ active = {} /\ complete = {}
       /\ foreground = None /\ background = None /\ monitor_kb = None

\* C14: the call that handles Interrupt wraps every id that is in active at
\* that moment exactly once, and wraps no other id; it starts and skips no
\* id, so an id of queue is neither started, skipped nor wrapped, also when a
\* forced wrap empties its after set or marks it expired.
C14_InterruptWrapsActiveOnly ==
    [][msg'[1] = "Interrupt" =>
          \A id \in DOMAIN task.id2action :
             /\ Events'.start[id] = Events.start[id]
             /\ Events'.skip[id] = Events.skip[id]
             /\ Events'.wrap[id] = IF id \in active
                                    THEN Bump(Events.wrap[id])
                                    ELSE Events.wrap[id]]_vars

\* An Interrupt has wrapped an action, and an action that was waiting for
\* it, or alongside it, stayed untouched: every predecessor of that action
\* is handled, or its companion is wrapped.
C14_Witness ==
    /\ msg[1] = "Interrupt" /\ IsSome(log)
    /\ \E id \in DOMAIN task.id2action \ {"entry", "exit"} :
         /\ Unwrap(log).start[id] = 0
         /\ Unwrap(log).skip[id] = 0
         /\ Unwrap(log).wrap[id] = 0
         /\ \/ /\ AfterOf(Resolved(id)) # {}
               /\ \A x \in AfterOf(Resolved(id)) :
                     Unwrap(log).wrap[x] + Unwrap(log).skip[x] > 0
            \/ /\ IsSome(Resolved(id).with)
               /\ Unwrap(log).wrap[Unwrap(Resolved(id).with)] = 1

\* C15: when the unit of a started action fails, the action still leaves
\* active and the block still reaches its terminal signal.
C15_FailedUnitStillCompletes ==
    \A id \in {"1", "2"} :
       (id \in failed) ~> (id \notin active /\ terminal > 0)

\* The nodes inlined from template t: its inner actions and its two gates.
\* The gate t~entry carries the after set of the template itself.
Inlined(t) ==
    {Tilde(t, x) : x \in {"1", "2", "entry", "exit"}} \cap DOMAIN task.id2action

InnerNodes(t) == Inlined(t) \ {Tilde(t, "entry"), Tilde(t, "exit")}

HasTemplate(t) == Tilde(t, "entry") \in DOMAIN task.id2action

\* C16: no inner node of the expansion of template T is started or skipped
\* before every action of the after set of T itself is in complete.
C16_InnerAfterTemplatePredecessors ==
    (IsSome(block) /\ HasTemplate("T")) =>
       \A n \in InnerNodes("T") :
          (Events.start[n] > 0 \/ Events.skip[n] > 0) =>
             AfterOf(Resolved("T~entry")) \subseteq complete

\* The actions whose after set names template t: Action::verify relinked
\* them to the gate t~exit.
Followers(t) ==
    {x \in DOMAIN task.id2action \ Inlined(t) :
       Tilde(t, "exit") \in AfterOf(Resolved(x))}

\* C17: an action whose after set names template T, explicitly or by default
\* chaining, is not started before every node inlined from T, the gate
\* T~exit included, is in complete.
C17_FollowerAfterWholeTemplate ==
    (IsSome(block) /\ HasTemplate("T")) =>
       \A x \in Followers("T") :
          Events.start[x] > 0 => Inlined("T") \subseteq complete

\* The block of three instructions that declare neither after nor with.
Chain ==
    BlockInit([i \in 1..3 |-> Info("", "instruction", None, None, None, "")]).val

\* C18: in the block of three actions 1, 2, 3 that declare no after (2 and 3
\* follow their previous sibling), init starts only 1, the completion of 1
\* starts only 2, the completion of 2 starts only 3, and the completion of 3
\* starts nothing and emits the terminal signal, the only one of the run; no
\* call reaches the deadlock abort.
C18_ChainRunsInOrder ==
    [][task = Chain =>
          /\ msg'[1] = "Init" => (Started' = {"1"} /\ ret' = "batch")
          /\ (msg' = <<"ActionComplete", "1">> /\ "1" \in active) =>
                (Started' = {"2"} /\ ret' = "batch")
          /\ (msg' = <<"ActionComplete", "2">> /\ "2" \in active) =>
                (Started' = {"3"} /\ ret' = "batch")
          /\ (msg' = <<"ActionComplete", "3">> /\ "3" \in active) =>
                (Started' = {} /\ ret' = "block_complete" /\ terminal' = 1)
          /\ ret' # "panic" /\ terminal' <= 1]_vars

\* The run of the chain in which 1, 2 and 3 completed in turn, at its
\* terminal signal.
C18_Witness ==
    /\ task = Chain
    /\ msg = <<"ActionComplete", "3">> /\ ret = "block_complete"
    /\ terminal = 1 /\ queue = {} /\ active = {}
    /\ \A id \in {"1", "2", "3"} : Events.start[id] = 1 /\ Events.wrap[id] = 1

\* The after set a declared action has once Action::init has applied the
\* default: the previous sibling (prev, none for the first action) when the
\* action declares neither after nor with.
DeclaredAfter(d, prev) ==
    IF d.after = None /\ d.with = None
    THEN (IF IsSome(prev) THEN Some({Unwrap(prev)}) ELSE Some({}))
    ELSE d.after

\* C20: when Action::init expands a template declared with predecessors P
\* (its after) and companion C (its with), the entry gate of the expansion
\* has after = P and with = C, whatever the number of inner actions.
C20_EntryGateCarriesAfterAndWith ==
    [][msg' = <<"Action::init", "Ok">> =>
          \A i \in 1..Len(task.actions) :
             task.actions[i].kind = "template" =>
                LET d == task.actions[i]
                    prev == IF i = 1 THEN None
                            ELSE Some(task'.actions[i - 1].id)
                    gate == task'.actions[i].actions[1]
                IN  /\ gate.id = Tilde(task'.actions[i].id, "entry")
                    /\ gate.after = DeclaredAfter(d, prev)
                    /\ gate.with = d.with]_vars

\* The outer actions declared with after = {T} and no companion.
PlainFollowers ==
    {x \in Followers("T") \ {"exit"} : Resolved(x).with = None}

\* Block::init has accepted a block in which the two-node template T is
\* followed by such an action.
TwoNodeFollowed ==
    /\ msg = <<"Block::init", "Ok">>
    /\ InnerNodes("T") = {"T~1", "T~2"}
    /\ PlainFollowers # {}

\* C19 as stated: the after set of X is exactly {T~exit}, and both inner
\* nodes of T have the entry gate in their after set.
C19_FollowerAfterIsExitOnly ==
    TwoNodeFollowed =>
       /\ \A x \in PlainFollowers : AfterOf(Resolved(x)) = {"T~exit"}
       /\ \A n \in InnerNodes("T") : "entry" \in AfterOf(Resolved(n))

\* C19, amended: the after set of X is exactly {entry, T~exit} (T~exit is
\* its only reference to T), and every inner node of T that has an after
\* set has the entry gate in it.
C19_FollowerAfterIsEntryAndExit ==
    TwoNodeFollowed =>
       /\ \A x \in PlainFollowers :
             AfterOf(Resolved(x)) = {"entry", "T~exit"}
       /\ \A n \in InnerNodes("T") :
             IsSome(Resolved(n).after) => "entry" \in AfterOf(Resolved(n))

\* The accepted block of the template and of the action that follows it, the
\* second inner node waiting for the first.
C19_Witness ==
    /\ TwoNodeFollowed
    /\ "2" \in PlainFollowers
    /\ AfterOf(Resolved("2")) = {"entry", "T~exit"}
    /\ "T~1" \in AfterOf(Resolved("T~2"))

\* Block::init has accepted the block: task is the flat graph.
Built == msg = <<"Block::init", "Ok">>

\* The nodes of the block's scope that no other node of the scope waits for.
NoSuccessor ==
    {n \in DOMAIN task.id2action \ {"entry", "exit"} :
       \A m \in DOMAIN task.id2action \ {"exit"} : n \notin AfterOf(Resolved(m))}

\* C21: the after set of the exit gate that add_gates produces is exactly the
\* set of the nodes of its scope that no other node of the scope waits for,
\* also when a node waits for a template by the id of the template.
C21_ExitWaitsForNodesWithoutSuccessor ==
    Built => AfterOf(Resolved("exit")) = NoSuccessor

\* The nodes that a node of `from` waits for, directly or through a chain of
\* at most k further nodes.
RECURSIVE Upstream(_, _)
Upstream(from, k) ==
    IF k = 0 THEN from
    ELSE Upstream(from \cup UNION {AfterOf(Resolved(n)) : n \in from}, k - 1)

\* C22: the after relation of every graph that Block::init accepts is
\* acyclic: no node waits for itself through a chain of nodes.
C22_AfterRelationAcyclic ==
    Built =>
       \A n \in DOMAIN task.id2action :
          n \notin Upstream(AfterOf(Resolved(n)),
                            Cardinality(DOMAIN task.id2action))

\* The ids of a list of actions are pairwise distinct.
Distinct(actions) ==
    \A i, j \in 1..Len(actions) : actions[i].id = actions[j].id => i = j

\* A list of declared actions gives the same id to two of its actions, or
\* holds a template whose file does (the files of the model nest at most one
\* template file that does not include itself).
DeclaresTwice(declared) ==
    LET twice(list) ==
            \E i, j \in 1..Len(list) :
               i # j /\ list[i].id # "" /\ list[i].id = list[j].id
        files == {TemplateFile(declared[i].source) :
                    i \in {k \in 1..Len(declared) :
                             /\ declared[k].kind = "template"
                             /\ declared[k].source \in TemplateSources}}
    IN  twice(declared) \/ \E f \in files : twice(f)

\* C23: when Block::init succeeds the ids of the flat node list, inlined
\* nodes and gates included, are pairwise distinct; a block or a template
\* file that declares the same id twice fails to load.
C23_IdsDistinct ==
    [][/\ msg' = <<"Block::init", "Ok">> => Distinct(task'.actions)
       /\ (msg = <<"", "">> /\ DeclaresTwice(task.actions)) =>
             msg' = <<"Block::init", "Err">>]_vars

\* A block that gives the id "a" to both of its actions was refused.
C23_Witness ==
    /\ msg = <<"Block::init", "Err">>
    /\ Len(task.actions) = 2
    /\ task.actions[1].id = "a" /\ task.actions[2].id = "a"

\* A list of initialised actions holds an action, a template or a node
\* inlined in a template, whose after set contains its own id or whose with
\* is its own id.  The with of a template is read as it was declared:
\* Action::init has prefixed it once for every inner action.
SelfRefers(actions) ==
    \/ \E i \in 1..Len(actions) :
          LET a == actions[i]
          IN  \/ a.id \in AfterOf(a)
              \/ a.kind # "template" /\ a.with = Some(a.id)
              \/ /\ a.kind = "template"
                 /\ a.with = PrefixWith(Some(a.id), a.id, Len(a.actions) - 2)
    \/ \E i \in 1..Len(Flatten(actions)) :
          LET a == Flatten(actions)[i]
          IN  a.id \in AfterOf(a) \/ a.with = Some(a.id)

\* C24: Block::init fails for any declared action, a template included,
\* whose after set contains its own id or whose with is its own id.
C24_SelfReferenceRefused ==
    [][(msg = <<"Action::init", "Ok">> /\ SelfRefers(task.actions)) =>
          msg' = <<"Block::init", "Err">>]_vars

\* The ids of the nodes of the expanded graph of a list of initialised
\* actions, the two gates of the block included.
NodeIds(actions) ==
    {Flatten(actions)[i].id : i \in 1..Len(Flatten(actions))}
       \cup {"entry", "exit"}

\* The references of the nodes: every name in an after set or a with field.
References(actions) ==
    UNION {AfterOf(Flatten(actions)[i]) \cup Flatten(actions)[i].with :
             i \in 1..Len(Flatten(actions))}

\* A reference that names no node and no template: a template is known by
\* its two gates.
Dangling(actions) ==
    {x \in References(actions) :
       /\ x \notin NodeIds(actions)
       /\ ~({Tilde(x, "entry"), Tilde(x, "exit")} \subseteq NodeIds(actions))}

\* Every id in an after set, a with field, a successors set or a dependents
\* set of the block is a key of its lookup table.
Closed(b) ==
    \A i \in 1..Len(b.actions) :
       AfterOf(b.actions[i]) \cup b.actions[i].with
          \cup b.actions[i].successors \cup b.actions[i].dependents
          \subseteq DOMAIN b.id2action

\* C25: Block::init fails whenever an after or with reference names neither
\* a node nor a template of the block, and after a successful Block::init
\* every id in an after set, a with field, a successors set or a dependents
\* set is a key of the lookup table.
C25_ReferencesResolve ==
    [][msg = <<"Action::init", "Ok">> =>
          /\ Dangling(task.actions) # {} => msg' = <<"Block::init", "Err">>
          /\ msg' = <<"Block::init", "Ok">> => Closed(task')]_vars

C25_Witness ==
    /\ msg = <<"Block::init", "Err">>
    /\ \E i \in 1..Len(task.actions) :
          /\ task.actions[i].id = "1"
          /\ task.actions[i].with = Some("zz")
    /\ "zz" \in Dangling(task.actions)

\* The nesting depth of the deepest action that Action::init of a reaches,
\* counted up to the first level beyond MAX_DEPTH.
RECURSIVE DepthOf(_, _)
DepthOf(a, depth) ==
    IF depth > MAX_DEPTH \/ a.kind # "template"
          \/ a.source \notin TemplateSources
    THEN depth
    ELSE LET file == TemplateFile(a.source)
             below == {DepthOf(file[i], depth + 1) : i \in 1..Len(file)}
         IN  CHOOSE d \in below : \A e \in below : e <= d

\* The files a file includes, and the files reached from a set of files in
\* k inclusions.
Includes(source) ==
    IF source \notin TemplateSources THEN {}
    ELSE {TemplateFile(source)[i].source :
            i \in {j \in 1..Len(TemplateFile(source)) :
                      TemplateFile(source)[j].kind = "template"}}

RECURSIVE Included(_, _)
Included(sources, k) ==
    IF k = 0 THEN sources
    ELSE Included(sources \cup UNION {Includes(x) : x \in sources}, k - 1)

SelfIncluding(source) ==
    source \in Included(Includes(source), Cardinality(TemplateSources))

\* C26: Action::init at a nesting depth greater than MAX_DEPTH returns an
\* error, so a block with a template whose file includes itself, directly or
\* through other files, fails to load (and its expansion ends).
C26_DepthLimitEndsExpansion ==
    [][msg = <<"", "">> =>
          \A i \in 1..Len(task.actions) :
             /\ DepthOf(task.actions[i], 0) > MAX_DEPTH =>
                   msg' = <<"Block::init", "Err">>
             /\ (task.actions[i].kind = "template"
                   /\ SelfIncluding(task.actions[i].source)) =>
                   /\ DepthOf(task.actions[i], 0) > MAX_DEPTH
                   /\ msg' = <<"Block::init", "Err">>]_vars

C26_Witness ==
    /\ msg = <<"Block::init", "Err">>
    /\ Len(task.actions) = 1
    /\ task.actions[1].kind = "template"
    /\ task.actions[1].source = "ping"
    /\ task.actions[1].actions = <<>>

\* The id Action::init gives the j-th action of a template file.
InnerId(file, j) == IF file[j].id = "" THEN ToString(j) ELSE file[j].id

\* The inner actions of the initialised template t read every reference to
\* a sibling s of their file as t.id~s, in after and in with.
SiblingsPrefixed(t) ==
    LET file == TemplateFile(t.source)
        siblings == {InnerId(file, j) : j \in 1..Len(file)}
    IN  \A j \in 1..Len(file) : \A k \in 1..Len(t.actions) :
           (file[j].kind # "template"
              /\ t.actions[k].id = Tilde(t.id, InnerId(file, j))) =>
              /\ \A s \in AfterOf(file[j]) \cap siblings :
                    Tilde(t.id, s) \in AfterOf(t.actions[k])
              /\ \A s \in file[j].with \cap siblings :
                    t.actions[k].with = Some(Tilde(t.id, s))

\* C27: once a template with id T is expanded, every reference of an inner
\* node to an inner sibling s reads T~s, in its after set and in its with
\* field alike.
C27_InnerReferencesPrefixed ==
    [][(msg = <<"", "">> /\ msg' = <<"Action::init", "Ok">>) =>
          \A i \in 1..Len(task'.actions) :
             task'.actions[i].kind = "template" =>
                SiblingsPrefixed(task'.actions[i])]_vars

\* C28 as stated: after Block::init succeeds no node of the flat graph has
\* an undefined (None) after set.
C28_NoUndefinedAfter ==
    Built => \A n \in DOMAIN task.id2action : IsSome(Resolved(n).after)

\* C28, amended: Action::init gives every action that declares neither after
\* nor with the default after set (the id of the action before it, the empty
\* set for the first), and after Block::init succeeds a node has an
\* undefined after set only if it has a with.
C28_UndefinedAfterOnlyWithCompanion ==
    [][/\ (msg = <<"", "">> /\ msg' = <<"Action::init", "Ok">>) =>
             \A i \in 1..Len(task.actions) :
                (task.actions[i].after = None /\ task.actions[i].with = None) =>
                   task'.actions[i].after =
                      Some(IF i = 1 THEN {} ELSE {task'.actions[i - 1].id})
       /\ msg' = <<"Block::init", "Ok">> =>
             \A n \in DOMAIN task'.id2action :
                LET a == task'.actions[task'.id2action[n]]
                IN  a.after = None => IsSome(a.with)]_vars

C28_Witness ==
    /\ Built
    /\ Len(task.actions) = 4
    /\ Resolved("a").after = Some({"entry"})
    /\ Resolved("2").after = None
    /\ Resolved("2").with = Some("a")

\* C29: during a run the after set of a node never gains an element: every
\* change removes the id of an action that the same call wrapped or skipped
\* (an undefined set stays undefined), and the set is empty or undefined
\* when the node is started.
C29_AfterSetsOnlyShrink ==
    [][IsSome(block') =>
          \A n \in DOMAIN task.id2action :
             LET old == IF IsSome(block) THEN Action(Unwrap(block), n)
                        ELSE Action(task, n)
                 new == Action(Unwrap(block'), n)
                 ended == {x \in DOMAIN task.id2action :
                             \/ Events'.wrap[x] > Events.wrap[x]
                             \/ Events'.skip[x] > Events.skip[x]}
             IN  /\ new.after = None <=> old.after = None
                 /\ AfterOf(new) \subseteq AfterOf(old)
                 /\ AfterOf(old) \ AfterOf(new) \subseteq ended
                 /\ n \in {c[1] : c \in commands'} => AfterOf(new) = {}]_vars

\* A completion removed an id from the after set of a node that still waits
\* for another one.
C29_Witness ==
    /\ msg[1] = "ActionComplete"
    /\ msg[2] \in wrapped
    /\ IsSome(block)
    /\ \E n \in DOMAIN task.id2action :
          /\ msg[2] \in AfterOf(Resolved(n))
          /\ msg[2] \notin AfterOf(Action(Unwrap(block), n))
          /\ AfterOf(Action(Unwrap(block), n)) # {}

\* C30: when Dispatcher::next skips an expired id, every dependent that is
\* expired by it and was not started is skipped in turn, and so on down the
\* dependents: the call returns, the dependent has its own SKIP event,
\* exactly one, and its id is removed from the after sets of its successors.
C30_SkipCascadeReachesDependents ==
    \A x \in DOMAIN task.id2action :
       (IsSome(block) /\ Events.skip[x] > 0) =>
          \A d \in Resolved(x).dependents :
             Events.start[d] = 0 =>
                /\ Alive
                /\ Events.skip[d] = 1
                /\ \A s \in Resolved(d).successors :
                      d \notin AfterOf(Action(Unwrap(block), s))

\* An id of the loaded block that a pass of Dispatcher::next would take: its
\* after set is empty, or it has none and no companion that is yet to start.
QueuedReady ==
    {id \in queue :
       LET a == Action(Unwrap(block), id)
       IN  ~ \/ IsSome(a.after) /\ Unwrap(a.after) # {}
             \/ /\ a.after = None
                /\ IsSome(a.with)
                /\ Events.start[Unwrap(a.with)] = 0}

C32_WithTemplateRelinked ==
    [][(msg = <<"Action::init", "Ok">> /\ msg' = <<"Block::init", "Ok">>) =>
          \A i \in 1..Len(Flatten(task.actions)) :
             LET a == Flatten(task.actions)[i]
                 n == Action(task', a.id)
                 T == Unwrap(a.with)
             IN  IsSome(a.with) =>
                    IF T \in NodeIds(task.actions)
                    THEN n.with = a.with
                    ELSE /\ Tilde(T, "entry") \in AfterOf(n)
                         /\ n.with = Some(Tilde(T, "exit"))
                         /\ a.id \in Action(task', Tilde(T, "exit")).dependents]_vars

\* A loaded block with a node whose with was relinked to the gates of T.
C32_Witness ==
    /\ Built
    /\ \E n \in DOMAIN task.id2action :
          /\ Resolved(n).with = Some("T~exit")
          /\ "T~entry" \in AfterOf(Resolved(n))
          /\ n \in Resolved("T~exit").dependents

\* C33: after Block::init succeeds, successors and dependents are the exact
\* reverse of after and with: b is in successors(a) iff a is in after(b),
\* and b is in dependents(a) iff with(b) is a, for all nodes a and b.
C33_ReverseIndexesExact ==
    Built =>
       \A a, b \in DOMAIN task.id2action :
          /\ b \in Resolved(a).successors <=> a \in AfterOf(Resolved(b))
          /\ b \in Resolved(a).dependents <=> Resolved(b).with = Some(a)

C33_Witness ==
    /\ Built
    /\ \E a \in DOMAIN task.id2action :
          /\ Resolved(a).dependents # {}
          /\ Cardinality(Resolved(a).successors) >= 2

\* C34: when Dispatcher::complete returns, none of the trackers foreground,
\* background and monitor_kb names an id that is in complete.
C34_TrackersNameNoCompleteId ==
    (IsSome(block) /\ Alive /\ msg[1] = "ActionComplete") =>
       (foreground \cup background \cup monitor_kb) \cap complete = {}

\* C35: after initialization expired is true for every gate, for every
\* action declared with a timeout of 0 and for every action that does
\* nothing, one declared without a timeout included (Action::init gives it
\* the timeout 0); no other action is expired before the run starts.
C35_ExpiredAtInit ==
    Built =>
       \A n \in DOMAIN task.id2action :
          UnwrapOr(Resolved(n).expired, FALSE) <=>
             (Resolved(n).kind = "nothing" \/ Resolved(n).timeout = Some(0))

\* C36: a completion signal of a unit or of a timeout that was started in an
\* earlier run of the dispatcher, one that was interrupted or has ended,
\* never wraps or otherwise changes an action of a later run, even when both
\* runs use the same id.
C36_StaleSignalChangesNothing ==
    [][msg'[1] = "StaleComplete" =>
          /\ UNCHANGED <<block, queue, active, complete>>
          /\ wrapped' = {} /\ commands' = {}]_vars

\* C37: while a block is loaded and the dispatcher is between two signals,
\* queue, active and complete are pairwise disjoint and their union is the
\* set of the ids of the block's flat graph.
C37_SetsPartitionTheGraph ==
    (IsSome(block) /\ Alive) =>
       /\ queue \cap active = {}
       /\ queue \cap complete = {}
       /\ active \cap complete = {}
       /\ queue \cup active \cup complete = DOMAIN task.id2action

\* C38: for every block that Block::init accepts, when the exit gate of the
\* block is moved to complete every other id of the block is in complete
\* already: exit is the last id to leave the queue.
C38_ExitLeavesQueueLast ==
    (IsSome(block) /\ "exit" \in complete) =>
       complete = DOMAIN task.id2action

\* C39: a block that declares no actions loads and runs to completion:
\* Dispatcher::init on it skips the two gates and emits the terminal signal
\* without reaching the deadlock abort.
C39_EmptyBlockRunsToCompletion ==
    (DOMAIN task.id2action = {"entry", "exit"} /\ msg = <<"Init", "">>) =>
       /\ ret = "block_complete"
       /\ skipped = {"entry", "exit"}

====
